---------------------------- MODULE Spec2Model ----------------------------
(***************************************************************************)
(* Model of modules/speech_to_text.py: one transcription job               *)
(* (transcribe_with_diarization_local), its paced feeder thread            *)
(* (_WavFeeder.run) and the recognition callbacks that the speech SDK      *)
(* invokes on its own thread.                                              *)
(*                                                                         *)
(* Representation.                                                         *)
(*  - Times.  The code computes with float seconds.  Here every time is an *)
(*    exact integer in "fine" units of 1/(rate * scale_100ns) second, so   *)
(*    that offset_100ns / scale_100ns and cursor_frame / rate are both     *)
(*    exact: a tick (100 ns) is `rate` fine units, a frame is scale_100ns  *)
(*    fine units.  int(x * scale_100ns) is x \div rate.                    *)
(*  - Strings.  A string is a sequence of tokens; s.lower() lowers every   *)
(*    token, `a in b` is "a is a contiguous subsequence of b", s.strip()   *)
(*    removes leading and trailing blank tokens.                           *)
(*  - Wall clock.  `idle` is time.time() - last_activity in seconds.  A    *)
(*    run of polls during which nothing happens is one Tick of PollQuantum *)
(*    seconds.                                                             *)
(***************************************************************************)
EXTENDS Integers, Sequences, FiniteSets, TLC

(* ------------------------------ constants ------------------------------ *)

\* Tuning knobs, speech_to_text.py lines 27-34 (defaults).
HANG_TIMEOUT_S == 45
MAX_RESTARTS == 8
CHUNK_MS == 100
\* OVERLAP_S = 1.5, in milliseconds
OVERLAP_MS == 1500
\* DEDUP_EPS_S = 0.08, in 100 ns ticks
DEDUP_EPS_TICKS == 800000
scale_100ns == 10000000
\* backoff_s = 1.0 at job start, min(20.0, ...) afterwards
BACKOFF_INIT_S == 1
BACKOFF_CAP_S == 20

(* -------------------------------- bounds ------------------------------- *)

\* sample rate of the WAV, frames per second
Rate == 1
\* the largest WAV, in frames
MaxFrames == 3
\* the transcript is cut off at this many segments
MaxSegs == 2
\* LOCAL_STT_MAX_RESTARTS of the jobs run against an arbitrary transport
MaxBudget == 2
\* seconds of silence that one Tick stands for
PollQuantum == 30

VARIABLES
    total_frames,           \* wav["frames"]
    max_restarts,           \* MAX_RESTARTS as configured for this job
    pc,                     \* supervisor position: start, loop, poll, sleep, stop, join, and
                            \* the ends done (return), fatal (RuntimeError of line 363),
                            \* error (any other exception left the function)
    cursor_frame,
    restarts,
    backoff_s,
    accepted_last_end_s,    \* the acceptance watermark, fine units
    transcription_results,
    session_base_s,         \* fine units
    done,
    restart_needed,
    restart_reason,
    idle,                   \* time.time() - last_activity, seconds
    stop_event,
    feeder,                 \* the _WavFeeder of the current sub-session
    transport,              \* the recognition session: "closed" or "open"
    raised,                 \* the exception the job raised, or NoError
    session_count,          \* history: sub-sessions started
    slept,                  \* history: sequence of time.sleep(backoff_s) durations
    emitted,                \* environment: events counted in this sub-session (utterances of
                            \* the faithful recognizer)
    injected,               \* environment: error details of the cancellation injected so far
    overlap_ms,             \* OVERLAP_S as configured for this job, in milliseconds
    wav,                    \* _wav_info(wav_path): rate, channels, bits_per_sample
    host_endpoint,          \* endpoint_map.get(language): "None", "" or the endpoint
    warning,                \* what lines 385-391 print before the return
    prev_session,           \* what is still alive of the sub-session before the current one
    fed                     \* history: the frames written to the push stream of some
                            \* sub-session, where the feeder's writes are recorded

vars == << total_frames, max_restarts, pc, cursor_frame, restarts, backoff_s, accepted_last_end_s,
           transcription_results, session_base_s, done, restart_needed, restart_reason,
           idle, stop_event, feeder, transport, raised, session_count, slept,
           emitted, injected, overlap_ms, wav, host_endpoint, warning, prev_session, fed >>

(* ------------------------------- strings ------------------------------- *)

Lower(tok) ==
    CASE tok = "Client" -> "client"
      [] tok = "Buffer" -> "buffer"
      [] tok = "Exceeded" -> "exceeded"
      [] tok = "WebSocket" -> "websocket"
      [] tok = "Connection" -> "connection"
      [] tok = "Timeout" -> "timeout"
      [] OTHER -> tok

\* _safe_lower: (s or "").lower()
SafeLower(s) == [i \in 1..Len(s) |-> Lower(s[i])]

\* Python's `pat in s`
Contains(s, pat) ==
    \E i \in 1..(Len(s) - Len(pat) + 1) : SubSeq(s, i, i + Len(pat) - 1) = pat

RECURSIVE LStrip(_)
LStrip(s) == IF s # << >> /\ Head(s) = " " THEN LStrip(Tail(s)) ELSE s

RECURSIVE RStrip(_)
RStrip(s) ==
    IF s # << >> /\ s[Len(s)] = " " THEN RStrip(SubSeq(s, 1, Len(s) - 1)) ELSE s

\* str.strip()
Strip(s) == RStrip(LStrip(s))

(* --------------------------- restart reasons --------------------------- *)

Tag(t) == [tag |-> t, raw |-> << >>]
NoReason == Tag("None")
\* restart_reason = error_details or "canceled"
RawReason(details) == IF details = << >> THEN Tag("canceled") ELSE [tag |-> "raw", raw |-> details]

NoError == [kind |-> "none", reason |-> NoReason]

(* ------------------------------ arithmetic ----------------------------- *)

Max(a, b) == IF a >= b THEN a ELSE b
Min(a, b) == IF a <= b THEN a ELSE b

\* chunk_frames = max(1, int(rate * (CHUNK_MS / 1000.0)))
chunk_frames == Max(1, (Rate * CHUNK_MS) \div 1000)

\* overlap_frames = int(OVERLAP_S * rate)
overlap_frames == (overlap_ms * Rate) \div 1000

\* session_base_s = cursor_frame / float(rate)
SessionBase(cursor) == cursor * scale_100ns

\* seg_start_s = (offset_100ns / scale_100ns) + session_base_s
SegStart(offset_100ns, base) == offset_100ns * Rate + base

\* seg_end_s = ((offset_100ns + duration_100ns) / scale_100ns) + session_base_s
SegEnd(offset_100ns, duration_100ns, base) == (offset_100ns + duration_100ns) * Rate + base

\* int(x * scale_100ns) for a time x >= 0
ToTicks(fine) == fine \div Rate

IsDuplicate_Strict(seg_end, watermark) == seg_end < watermark + DEDUP_EPS_TICKS * Rate

\* seg_end_s <= accepted_last_end_s + DEDUP_EPS_S
IsDuplicate(seg_end, watermark) == seg_end <= watermark + DEDUP_EPS_TICKS * Rate

NewWatermark_Stale(watermark, seg_end) == watermark

\* accepted_last_end_s = max(accepted_last_end_s, seg_end_s)
NewWatermark(watermark, seg_end) == Max(watermark, seg_end)

\* the appended TranscriptSegment
Segment(speaker, text, seg_start, seg_end) ==
    [speaker_id |-> speaker, text |-> text,
     offset |-> ToTicks(seg_start), duration |-> ToTicks(seg_end - seg_start)]

HangDetected_Never(idle_s) == FALSE
HangDetected_Inverted(idle_s) == idle_s < HANG_TIMEOUT_S

\* time.time() - last_activity > HANG_TIMEOUT_S
HangDetected(idle_s) == idle_s > HANG_TIMEOUT_S

AdvanceCursor_ToEnd(cursor, sent, total) == total
AdvanceCursor_OneChunkMore(cursor, sent, total) == Min(total, cursor + sent + chunk_frames)

\* cursor_frame = min(total_frames, cursor_frame + int(feeder.frames_sent))
AdvanceCursor(cursor, sent, total) == Min(total, cursor + sent)

RollBack_NoClamp(cursor) == cursor - overlap_frames

\* cursor_frame = max(0, cursor_frame - overlap_frames)
RollBack(cursor) == Max(0, cursor - overlap_frames)

BudgetExceeded_OneMore(r, budget) == r > budget + 1
BudgetExceeded_OneLess(r, budget) == r >= budget

\* restarts > MAX_RESTARTS
BudgetExceeded(r, budget) == r > budget

NextBackoff_NoCap(b) == b * 2

\* backoff_s = min(20.0, backoff_s * 2.0)
NextBackoff(b) == Min(BACKOFF_CAP_S, b * 2)

ClassifyCancel_CaseSensitive(details) ==
    IF Contains(details, << "client", "buffer", "exceeded" >>)
    THEN << TRUE, Tag("client_buffer_exceeded") >>
    ELSE IF Contains(details, << "websocket" >>) \/ Contains(details, << "connection" >>)
            \/ Contains(details, << "timeout" >>)
         THEN << TRUE, Tag("connection_or_timeout") >>
         ELSE << FALSE, RawReason(details) >>

ClassifyCancel_TimeoutFirst(details) ==
    LET msg == SafeLower(details) IN
    IF Contains(msg, << "websocket" >>) \/ Contains(msg, << "connection" >>)
       \/ Contains(msg, << "timeout" >>)
    THEN << TRUE, Tag("connection_or_timeout") >>
    ELSE IF Contains(msg, << "client", "buffer", "exceeded" >>)
         THEN << TRUE, Tag("client_buffer_exceeded") >>
         ELSE << FALSE, RawReason(details) >>

\* canceled_cb's classification of the lowered error details:
\* << restart forced, restart_reason >>
ClassifyCancel(details) ==
    LET msg == SafeLower(details) IN
    IF Contains(msg, << "client", "buffer", "exceeded" >>)
    THEN << TRUE, Tag("client_buffer_exceeded") >>
    ELSE IF Contains(msg, << "websocket" >>) \/ Contains(msg, << "connection" >>)
            \/ Contains(msg, << "timeout" >>)
         THEN << TRUE, Tag("connection_or_timeout") >>
         ELSE << FALSE, RawReason(details) >>

(* ------------------------------ job start ------------------------------ *)

NoFeeder == [pc |-> "none", start_frame |-> 0, frames_sent |-> 0,
             finished |-> FALSE, error |-> "None", push_stream |-> "none"]

Exit_StreamLeftOpen(f) == [f EXCEPT !.pc = "exited"]

\* lines 109-113: however run() is left, its finally clause closes the push
\* stream, and the thread is over
Exit(f) == [f EXCEPT !.pc = "exited", !.push_stream = "closed"]

\* a sub-session of which nothing is alive
NoSession == [transport |-> "closed", base_s |-> 0, feeder |-> NoFeeder]

\* a WAV as convert_audio_to_wav writes it, and a configured endpoint
GoodWav == [rate |-> Rate, channels |-> 1, bits_per_sample |-> 16]
GoodEndpoint == "ws://stt"

\* lines 187-210: the locals of the job for one request
InitRequest(frames, budget, overlap, info, endpoint, at) ==
    /\ total_frames = frames
    /\ max_restarts = budget
    /\ overlap_ms = overlap
    /\ wav = info
    /\ host_endpoint = endpoint
    /\ warning = "None"
    /\ prev_session = NoSession
    /\ pc = at
    /\ cursor_frame = 0
    /\ restarts = 0
    /\ backoff_s = BACKOFF_INIT_S
    /\ accepted_last_end_s = -(scale_100ns * Rate)
    /\ transcription_results = << >>
    /\ session_base_s = 0
    /\ done = FALSE
    /\ restart_needed = FALSE
    /\ restart_reason = NoReason
    /\ idle = 0
    /\ stop_event = FALSE
    /\ feeder = NoFeeder
    /\ transport = "closed"
    /\ raised = NoError
    /\ session_count = 0
    /\ slept = << >>
    /\ emitted = 0
    /\ injected = << >>
    /\ fed = { }

\* lines 190-210: the state before the first pass of the loop, for a request
\* that passed validation and the default overlap window
InitJob(frames, budget) == InitRequest(frames, budget, OVERLAP_MS, GoodWav, GoodEndpoint, "loop")

Init == \E frames \in 0..MaxFrames : InitJob(frames, MaxBudget)

config_vars == << total_frames, max_restarts, overlap_ms, wav, host_endpoint >>
job_vars == << config_vars, cursor_frame, restarts, backoff_s, raised, slept >>
dedup_vars == << accepted_last_end_s, transcription_results >>
flag_vars == << done, restart_needed, restart_reason >>
env_vars == << emitted, injected >>
side_vars == << warning, prev_session >>

(* ------------------------------ validation ---------------------------- *)

\* line 130: `not host_endpoint`, for no entry or no value (None) and for ""
MissingEndpoint(endpoint) == endpoint \in {"None", ""}

InvalidWav_OnlyNegative(info) ==
    info.rate < 0 \/ info.channels < 0 \/ info.bits_per_sample < 0

\* line 197: rate <= 0 or channels <= 0 or bits_per_sample <= 0
InvalidWav(info) ==
    info.rate <= 0 \/ info.channels <= 0 \/ info.bits_per_sample <= 0

\* lines 187-198: create_local_speech_config, then _wav_info and the check
\* of the metadata
Validate ==
    /\ pc = "start"
    /\ IF MissingEndpoint(host_endpoint)
       THEN /\ raised' = [kind |-> "ValueError",
                          reason |-> Tag("Unsupported language or missing endpoint")]
            /\ pc' = "error"
       ELSE IF InvalidWav(wav)
            THEN /\ raised' = [kind |-> "ValueError", reason |-> Tag("Invalid WAV metadata")]
                 /\ pc' = "error"
            ELSE /\ pc' = "loop"
                 /\ UNCHANGED raised
    /\ UNCHANGED << fed, config_vars, cursor_frame, restarts, backoff_s, slept, side_vars,
                    dedup_vars, flag_vars, env_vars, session_base_s, idle, stop_event, feeder,
                    transport, session_count >>

\* lines 44-50, 190: wave.open itself rejects a header with no channels or no
\* sample width, and its wave.Error leaves the job
WavInfoRaises ==
    /\ pc = "start"
    /\ ~MissingEndpoint(host_endpoint)
    /\ wav.channels = 0 \/ wav.bits_per_sample = 0
    /\ raised' = [kind |-> "wave.Error", reason |-> NoReason]
    /\ pc' = "error"
    /\ UNCHANGED << fed, config_vars, cursor_frame, restarts, backoff_s, slept, side_vars,
                    dedup_vars, flag_vars, env_vars, session_base_s, idle, stop_event, feeder,
                    transport, session_count >>

(* ------------------------------ supervisor ----------------------------- *)

StartSession_KeepsFlags ==
    /\ pc = "loop"
    /\ cursor_frame < total_frames
    /\ session_base_s' = SessionBase(cursor_frame)
    /\ done' = FALSE
    /\ idle' = 0
    /\ stop_event' = FALSE
    /\ feeder' = [pc |-> "check", start_frame |-> cursor_frame, frames_sent |-> 0,
                  finished |-> FALSE, error |-> "None", push_stream |-> "open"]
    /\ transport' = "open"
    /\ session_count' = session_count + 1
    /\ emitted' = 0
    /\ pc' = "poll"
    /\ prev_session' = IF transport = "open" \/ feeder.pc \in {"check", "feed"}
                       THEN [transport |-> transport, base_s |-> session_base_s,
                             feeder |-> feeder]
                       ELSE NoSession
    /\ UNCHANGED << fed, job_vars, accepted_last_end_s, transcription_results, injected, warning,
                    restart_needed, restart_reason >>

\* while cursor_frame < total_frames: lines 212-331, one sub-session is set up,
\* its feeder started and its recognition session opened
StartSession ==
    /\ pc = "loop"
    /\ cursor_frame < total_frames
    /\ session_base_s' = SessionBase(cursor_frame)
    /\ done' = FALSE
    /\ restart_needed' = FALSE
    /\ restart_reason' = NoReason
    /\ idle' = 0
    /\ stop_event' = FALSE
    /\ feeder' = [pc |-> "check", start_frame |-> cursor_frame, frames_sent |-> 0,
                  finished |-> FALSE, error |-> "None", push_stream |-> "open"]
    /\ transport' = "open"
    /\ session_count' = session_count + 1
    /\ emitted' = 0
    /\ pc' = "poll"
    /\ prev_session' = IF transport = "open" \/ feeder.pc \in {"check", "feed"}
                       THEN [transport |-> transport, base_s |-> session_base_s,
                             feeder |-> feeder]
                       ELSE NoSession
    /\ UNCHANGED << fed, job_vars, accepted_last_end_s, transcription_results, injected, warning >>

\* lines 212-227: building the stream format, the push stream, the audio
\* config or the transcriber raises; nothing catches it
ConstructRaises ==
    /\ pc = "loop"
    /\ cursor_frame < total_frames
    /\ session_base_s' = SessionBase(cursor_frame)
    /\ raised' = [kind |-> "SdkError", reason |-> NoReason]
    /\ pc' = "error"
    /\ UNCHANGED << fed, config_vars, cursor_frame, restarts, backoff_s, slept, side_vars,
                    dedup_vars, flag_vars, env_vars, idle, stop_event, feeder, transport,
                    session_count >>

\* lines 212-331: the sub-session is set up and its feeder started (line 330),
\* then start_transcribing_async().get() raises; nothing catches it, and
\* nothing stops the feeder
StartTranscribingRaises ==
    /\ pc = "loop"
    /\ cursor_frame < total_frames
    /\ session_base_s' = SessionBase(cursor_frame)
    /\ done' = FALSE
    /\ restart_needed' = FALSE
    /\ restart_reason' = NoReason
    /\ idle' = 0
    /\ stop_event' = FALSE
    /\ feeder' = [pc |-> "check", start_frame |-> cursor_frame, frames_sent |-> 0,
                  finished |-> FALSE, error |-> "None", push_stream |-> "open"]
    /\ prev_session' = IF transport = "open" \/ feeder.pc \in {"check", "feed"}
                       THEN [transport |-> transport, base_s |-> session_base_s,
                             feeder |-> feeder]
                       ELSE NoSession
    /\ transport' = "closed"
    /\ raised' = [kind |-> "SdkError", reason |-> NoReason]
    /\ pc' = "error"
    /\ UNCHANGED << fed, config_vars, cursor_frame, restarts, backoff_s, slept, warning,
                    dedup_vars, env_vars, session_count >>

\* lines 385-391: what is printed before the transcript is returned; the
\* duration of the WAV is frames / rate, and watermark < duration * 0.98 is
\* 50 * watermark < 49 * duration
JobWarning(results, watermark, frames) ==
    IF results = << >>
    THEN "no_results"
    ELSE IF watermark > 0 /\ frames * scale_100ns > 0
            /\ watermark <= (49 * (frames * scale_100ns) - 1) \div 50
         THEN "may_end_early"
         ELSE "None"

LoopExit_EmptyIsError ==
    /\ pc = "loop"
    /\ ~(cursor_frame < total_frames)
    /\ warning' = JobWarning(transcription_results, accepted_last_end_s, total_frames)
    /\ IF transcription_results = << >>
       THEN /\ raised' = [kind |-> "RuntimeError", reason |-> Tag("no_results")]
            /\ pc' = "error"
       ELSE /\ pc' = "done"
            /\ UNCHANGED raised
    /\ UNCHANGED << fed, config_vars, cursor_frame, restarts, backoff_s, slept, dedup_vars,
                    flag_vars, env_vars, session_base_s, idle, stop_event, feeder,
                    transport, session_count, prev_session >>

\* the loop condition fails: lines 385-393, the transcript is returned
LoopExit ==
    /\ pc = "loop"
    /\ ~(cursor_frame < total_frames)
    /\ warning' = JobWarning(transcription_results, accepted_last_end_s, total_frames)
    /\ pc' = "done"
    /\ UNCHANGED << fed, job_vars, dedup_vars, flag_vars, env_vars, session_base_s, idle,
                    stop_event, feeder, transport, session_count, prev_session >>

\* while not done: (line 333)
PollTest ==
    /\ pc = "poll"
    /\ pc' = IF done THEN "stop" ELSE "sleep"
    /\ UNCHANGED << fed, job_vars, side_vars, dedup_vars, flag_vars, env_vars, session_base_s, idle,
                    stop_event, feeder, transport, session_count >>

\* time.sleep(0.5) is over; the watchdog check, lines 335-338
PollCheck ==
    /\ pc = "sleep"
    /\ IF HangDetected(idle)
       THEN /\ restart_needed' = TRUE
            /\ restart_reason' = Tag("hang_timeout")
            /\ done' = TRUE
       ELSE UNCHANGED flag_vars
    /\ pc' = "poll"
    /\ UNCHANGED << fed, job_vars, side_vars, dedup_vars, env_vars, session_base_s, idle,
                    stop_event, feeder, transport, session_count >>

StopSession_NoSignal ==
    /\ pc = "stop"
    /\ transport' = "closed"
    /\ pc' = "join"
    /\ UNCHANGED << fed, job_vars, side_vars, dedup_vars, flag_vars, env_vars, session_base_s, idle,
                    feeder, session_count, stop_event >>

\* lines 340-344: stop_event.set(); stop_transcribing_async().get()
StopSession ==
    /\ pc = "stop"
    /\ stop_event' = TRUE
    /\ transport' = "closed"
    /\ pc' = "join"
    /\ UNCHANGED << fed, job_vars, side_vars, dedup_vars, flag_vars, env_vars, session_base_s, idle,
                    feeder, session_count >>

\* lines 340-344 when stop_transcribing_async().get() raises: the exception
\* is swallowed and the recognition session is left as it is
StopSessionRaises ==
    /\ pc = "stop"
    /\ stop_event' = TRUE
    /\ pc' = "join"
    /\ UNCHANGED << fed, job_vars, side_vars, dedup_vars, flag_vars, env_vars, session_base_s, idle,
                    feeder, transport, session_count >>

RestartDecision_NoEarly(needed, reason, cursor, f, total) ==
    << needed \/ f.error # "None",
       IF f.error # "None" /\ ~needed THEN Tag(f.error) ELSE reason >>

\* lines 352-358: the restart decision after the cursor advance,
\* << restart_needed, restart_reason >>
RestartDecision(needed, reason, cursor, f, total) ==
    LET n1 == needed \/ f.error # "None"
        r1 == IF f.error # "None" /\ ~needed THEN Tag(f.error) ELSE reason
        early == ~n1 /\ cursor < total /\ ~f.finished
    IN  << n1 \/ early, IF early THEN Tag("session_stopped_early") ELSE r1 >>

\* lines 348-383: the cursor advance, the restart decision and what follows
\* it up to the next pass of the loop (or the end of the job, lines 385-393)
AfterJoin ==
    /\ pc = "join"
    /\ LET advanced == AdvanceCursor(cursor_frame, feeder.frames_sent, total_frames)
           decision == RestartDecision(restart_needed, restart_reason, advanced,
                                       feeder, total_frames)
       IN  /\ restart_needed' = decision[1]
           /\ restart_reason' = decision[2]
           /\ IF decision[1]
              THEN /\ restarts' = restarts + 1
                   /\ IF BudgetExceeded(restarts + 1, max_restarts)
                      THEN /\ raised' = [kind |-> "TooManyRestarts", reason |-> decision[2]]
                           /\ pc' = "fatal"
                           /\ cursor_frame' = advanced
                           /\ UNCHANGED << backoff_s, slept, warning >>
                      ELSE /\ cursor_frame' = RollBack(advanced)
                           /\ slept' = Append(slept, backoff_s)
                           /\ backoff_s' = NextBackoff(backoff_s)
                           /\ pc' = "loop"
                           /\ UNCHANGED << raised, warning >>
              ELSE /\ cursor_frame' = advanced
                   /\ pc' = IF advanced < total_frames THEN "loop" ELSE "done"
                   /\ warning' = IF advanced < total_frames
                                 THEN warning
                                 ELSE JobWarning(transcription_results,
                                                 accepted_last_end_s, total_frames)
                   /\ UNCHANGED << restarts, backoff_s, raised, slept >>
    /\ UNCHANGED << fed, config_vars, dedup_vars, env_vars, session_base_s, done, idle,
                    stop_event, feeder, transport, session_count, prev_session >>

\* line 346: feeder.join(timeout=5) returns because the feeder thread has
\* terminated; then lines 348-383
EndSession ==
    /\ feeder.pc = "exited"
    /\ AfterJoin

\* line 346: feeder.join(timeout=5) returns after 5 s with the feeder thread
\* still alive; then lines 348-383, on what the feeder has counted so far
EndSessionAbandon ==
    /\ feeder.pc \in {"check", "feed"}
    /\ AfterJoin

(* -------------------------------- feeder ------------------------------- *)

FeederCheck_IgnoresStop ==
    /\ feeder.pc = "check"
    /\ feeder' = [feeder EXCEPT !.pc = "feed"]
    /\ UNCHANGED << fed, job_vars, side_vars, dedup_vars, flag_vars, env_vars, pc, session_base_s, idle,
                    stop_event, transport, session_count >>

FeederCheck_FinishedOnStop ==
    /\ feeder.pc = "check"
    /\ feeder' = IF stop_event
                 THEN Exit([feeder EXCEPT !.finished = TRUE])
                 ELSE [feeder EXCEPT !.pc = "feed"]
    /\ UNCHANGED << fed, job_vars, side_vars, dedup_vars, flag_vars, env_vars, pc, session_base_s, idle,
                    stop_event, transport, session_count >>

\* while not self.stop_event.is_set(): (line 93)
FeederCheck ==
    /\ feeder.pc = "check"
    /\ feeder' = IF stop_event THEN Exit(feeder) ELSE [feeder EXCEPT !.pc = "feed"]
    /\ UNCHANGED << fed, job_vars, side_vars, dedup_vars, flag_vars, env_vars, pc, session_base_s, idle,
                    stop_event, transport, session_count >>

FeederFeed_MovesCursor ==
    /\ feeder.pc = "feed"
    /\ LET pos == feeder.start_frame + feeder.frames_sent
           read_frames == Min(chunk_frames, total_frames - pos)
       IN  /\ feeder' = IF read_frames = 0
                        THEN Exit([feeder EXCEPT !.finished = TRUE])
                        ELSE [feeder EXCEPT !.frames_sent = @ + read_frames, !.pc = "check"]
           /\ cursor_frame' = pos + read_frames
    /\ UNCHANGED << fed, config_vars, restarts, backoff_s, raised, slept, side_vars, dedup_vars,
                    flag_vars, env_vars, pc, session_base_s, idle, stop_event, transport,
                    session_count >>

\* lines 94-104: read one chunk; at end of stream finish, else write it
FeederFeed ==
    /\ feeder.pc = "feed"
    /\ LET pos == feeder.start_frame + feeder.frames_sent
           read_frames == Min(chunk_frames, total_frames - pos)
       IN  feeder' = IF read_frames = 0
                     THEN Exit([feeder EXCEPT !.finished = TRUE])
                     ELSE [feeder EXCEPT !.frames_sent = @ + read_frames, !.pc = "check"]
    /\ UNCHANGED << fed, job_vars, side_vars, dedup_vars, flag_vars, env_vars, pc, session_base_s, idle,
                    stop_event, transport, session_count >>

\* lines 94-104, with the frames of the chunk written recorded in fed
FeederWrite ==
    /\ feeder.pc = "feed"
    /\ LET pos == feeder.start_frame + feeder.frames_sent
           read_frames == Min(chunk_frames, total_frames - pos)
       IN  /\ feeder' = IF read_frames = 0
                        THEN Exit([feeder EXCEPT !.finished = TRUE])
                        ELSE [feeder EXCEPT !.frames_sent = @ + read_frames, !.pc = "check"]
           /\ fed' = fed \cup (pos .. (pos + read_frames - 1))
    /\ UNCHANGED << job_vars, side_vars, dedup_vars, flag_vars, env_vars, pc, session_base_s, idle,
                    stop_event, transport, session_count >>

\* lines 106-108: reading or writing raised, or, before the first test of
\* the stop event, opening the file or seeking to start_frame (lines 87-88)
FeederError ==
    /\ \/ feeder.pc = "feed"
       \/ feeder.pc = "check" /\ feeder.frames_sent = 0
    /\ feeder' = Exit([feeder EXCEPT !.error = "feeder_error:OSError"])
    /\ UNCHANGED << fed, job_vars, side_vars, dedup_vars, flag_vars, env_vars, pc, session_base_s, idle,
                    stop_event, transport, session_count >>

\* The feeder of the sub-session before the current one, when it outlived
\* the join: its stop event is set, its stream is its own.
\* line 93, with stop_event.is_set() true
PrevFeederCheck ==
    /\ prev_session.feeder.pc = "check"
    /\ prev_session' = [prev_session EXCEPT !.feeder = Exit(@)]
    /\ UNCHANGED << fed, job_vars, warning, dedup_vars, flag_vars, env_vars, pc, session_base_s,
                    idle, stop_event, feeder, transport, session_count >>

\* lines 94-104
PrevFeederFeed ==
    /\ prev_session.feeder.pc = "feed"
    /\ LET f == prev_session.feeder
           pos == f.start_frame + f.frames_sent
           read_frames == Min(chunk_frames, total_frames - pos)
       IN  prev_session' =
               [prev_session EXCEPT !.feeder =
                   IF read_frames = 0
                   THEN Exit([f EXCEPT !.finished = TRUE])
                   ELSE [f EXCEPT !.frames_sent = @ + read_frames, !.pc = "check"]]
    /\ UNCHANGED << fed, job_vars, warning, dedup_vars, flag_vars, env_vars, pc, session_base_s,
                    idle, stop_event, feeder, transport, session_count >>

(* ----------------------------- wall clock ------------------------------ *)

\* PollQuantum seconds pass without any event
Tick ==
    /\ pc \in {"poll", "sleep"}
    /\ idle <= HANG_TIMEOUT_S
    /\ idle' = idle + PollQuantum
    /\ UNCHANGED << fed, job_vars, side_vars, dedup_vars, flag_vars, env_vars, pc, session_base_s,
                    stop_event, feeder, transport, session_count >>

(* ------------------------ recognition callbacks ------------------------ *)

SEC == scale_100ns

\* what a Final event can carry
Texts == { << " ", "hello", " " >> }
Offsets == { 0, SEC }
Durations == { DEDUP_EPS_TICKS, 2 * SEC }
Speakers == { "Guest-1" }

SpeechEvents ==
    [kind : {"speech"}, text : Texts, offset : Offsets, duration : Durations,
     speaker : Speakers]
\* no result, no recognized speech, or a text that is blank
OtherEvents ==
    [kind : {"noresult", "nomatch"}, text : { << >> }, offset : {0}, duration : {0},
     speaker : Speakers]
    \cup [kind : {"speech"}, text : { << " " >> }, offset : {0}, duration : {SEC},
          speaker : Speakers]
FinalEvents == SpeechEvents \cup OtherEvents

\* error details a cancellation can carry
CancelDetails ==
    { << "Client", "Buffer", "Exceeded" >>,
      << "Buffer", "exceeded" >> }

FinalEffect_AcceptsBlank(results, watermark, base, evt) ==
    IF evt.kind # "speech"
    THEN << results, watermark >>
    ELSE LET seg_start_s == SegStart(evt.offset, base)
             seg_end_s == SegEnd(evt.offset, evt.duration, base)
         IN  IF IsDuplicate(seg_end_s, watermark)
             THEN << results, watermark >>
             ELSE << Append(results,
                            Segment(evt.speaker, Strip(evt.text), seg_start_s, seg_end_s)),
                     NewWatermark(watermark, seg_end_s) >>

\* lines 253-282: what transcribed_cb makes of the transcript and the
\* watermark, << transcription_results, accepted_last_end_s >>
FinalEffect(results, watermark, base, evt) ==
    IF evt.kind # "speech" \/ Strip(evt.text) = << >>
    THEN << results, watermark >>
    ELSE LET seg_start_s == SegStart(evt.offset, base)
             seg_end_s == SegEnd(evt.offset, evt.duration, base)
         IN  IF IsDuplicate(seg_end_s, watermark)
             THEN << results, watermark >>
             ELSE << Append(results,
                            Segment(evt.speaker, Strip(evt.text), seg_start_s, seg_end_s)),
                     NewWatermark(watermark, seg_end_s) >>

\* transcribed_cb, lines 249-283, on the variables the closure reads
TranscribedCb(evt) ==
    LET effect == FinalEffect(transcription_results, accepted_last_end_s,
                              session_base_s, evt)
    IN  /\ idle' = 0
        /\ transcription_results' = effect[1]
        /\ accepted_last_end_s' = effect[2]

\* a Final event is delivered (none that would make the transcript longer
\* than MaxSegs)
Transcribed(events) ==
    /\ transport = "open"
    /\ \E evt \in events :
          /\ TranscribedCb(evt)
          /\ Len(transcription_results') <= MaxSegs
    /\ UNCHANGED << fed, job_vars, side_vars, flag_vars, env_vars, pc, session_base_s, stop_event, feeder,
                    transport, session_count >>

\* transcribing_cb, lines 285-299: an incremental event is delivered
Transcribing ==
    /\ transport = "open"
    /\ idle' = 0
    /\ UNCHANGED << fed, job_vars, side_vars, dedup_vars, flag_vars, env_vars, pc, session_base_s,
                    stop_event, feeder, transport, session_count >>

\* canceled_cb, lines 301-319
CanceledCb(details) ==
    LET c == ClassifyCancel(details) IN
    /\ restart_needed' = (restart_needed \/ c[1])
    /\ restart_reason' = c[2]
    /\ done' = TRUE

\* a canceled event is delivered
Canceled(reasons) ==
    /\ transport = "open"
    /\ \E details \in reasons : CanceledCb(details)
    /\ UNCHANGED << fed, job_vars, side_vars, dedup_vars, env_vars, pc, session_base_s, idle, stop_event,
                    feeder, transport, session_count >>

\* session_stopped_cb, lines 321-323: a terminated event is delivered
SessionStopped ==
    /\ transport = "open"
    /\ done' = TRUE
    /\ UNCHANGED << fed, job_vars, side_vars, dedup_vars, env_vars, restart_needed, restart_reason, pc,
                    session_base_s, idle, stop_event, feeder, transport, session_count >>

\* The recognition session of the sub-session before the current one, when
\* its stop failed: its four callbacks are the closures of that pass of the
\* loop, whose nonlocal names are the same variables of the one enclosing call.
PrevTranscribed(events) ==
    /\ prev_session.transport = "open"
    /\ \E evt \in events :
          /\ TranscribedCb(evt)
          /\ Len(transcription_results') <= MaxSegs
    /\ UNCHANGED << fed, job_vars, side_vars, flag_vars, env_vars, pc, session_base_s, stop_event,
                    feeder, transport, session_count >>

PrevTranscribing ==
    /\ prev_session.transport = "open"
    /\ idle' = 0
    /\ UNCHANGED << fed, job_vars, side_vars, dedup_vars, flag_vars, env_vars, pc, session_base_s,
                    stop_event, feeder, transport, session_count >>

PrevCanceled(reasons) ==
    /\ prev_session.transport = "open"
    /\ \E details \in reasons : CanceledCb(details)
    /\ UNCHANGED << fed, job_vars, side_vars, dedup_vars, env_vars, pc, session_base_s, idle,
                    stop_event, feeder, transport, session_count >>

PrevSessionStopped ==
    /\ prev_session.transport = "open"
    /\ done' = TRUE
    /\ UNCHANGED << fed, job_vars, side_vars, dedup_vars, env_vars, restart_needed, restart_reason,
                    pc, session_base_s, idle, stop_event, feeder, transport, session_count >>

\* the transcriber of the sub-session before the current one is gone (it
\* stopped after all, or the object was released)
PrevSessionGone ==
    /\ prev_session.transport = "open"
    /\ prev_session' = [prev_session EXCEPT !.transport = "closed"]
    /\ UNCHANGED << fed, job_vars, warning, dedup_vars, flag_vars, env_vars, pc, session_base_s,
                    idle, stop_event, feeder, transport, session_count >>

(* ----------------------- well-behaved environments --------------------- *)

\* time passes, but never more than the hang timeout without an event
TickNoHang ==
    /\ idle + PollQuantum <= HANG_TIMEOUT_S
    /\ Tick

\* the recognizer sends terminated-normally, and only after end-of-input
CleanStop ==
    /\ feeder.finished
    /\ SessionStopped

\* error details that contain "buffer exceeded" in some letter case
BufferExceededDetails ==
    { << "Client", "Buffer", "Exceeded" >>,
      << "client", "buffer", "exceeded" >>,
      << "Buffer", "exceeded" >> }

\* the one injected failure: a cancellation before the feeder reached the end
\* of the stream
InjectCancel(reasons) ==
    /\ transport = "open"
    /\ injected = << >>
    /\ feeder.pc \in {"check", "feed"}
    /\ \E details \in reasons :
          /\ CanceledCb(details)
          /\ injected' = details
    /\ UNCHANGED << fed, job_vars, side_vars, dedup_vars, emitted, pc, session_base_s, idle, stop_event,
                    feeder, transport, session_count >>

\* error details of every class, in several letter cases, alone and combined
ClassifiedDetails ==
    { << "Client", "Buffer", "Exceeded" >>,
      << "the", "client", "buffer", "exceeded", "Timeout" >>,
      << "Buffer", "exceeded" >>,
      << "Buffer", "exceeded", "timeout" >>,
      << "WebSocket", "closed" >>,
      << "Connection", "lost" >>,
      << "read", "Timeout" >>,
      << "quota" >> }

\* canceled_cb, lines 301-319, with the error details of the event recorded
CanceledWith(reasons) ==
    /\ transport = "open"
    /\ \E details \in reasons :
          /\ CanceledCb(details)
          /\ injected' = details
    /\ UNCHANGED << fed, job_vars, side_vars, dedup_vars, emitted, pc, session_base_s, idle, stop_event,
                    feeder, transport, session_count >>

\* The audio of the idempotence scenario: frame i-1 is utterance i, and the
\* recognizer of a sub-session emits, in order, the utterances that lie in the
\* audio it was fed, with the offset and duration they have in its local time.
UtteranceText(i) == << "utterance", ToString(i) >>

UtteranceEvent(i, start_frame) ==
    [kind |-> "speech", text |-> UtteranceText(i),
     offset |-> ((i - 1 - start_frame) * scale_100ns) \div Rate,
     duration |-> scale_100ns \div Rate,
     speaker |-> "Guest-1"]

EmitUtterance ==
    /\ transport = "open"
    /\ LET i == feeder.start_frame + emitted + 1 IN
          /\ i <= feeder.start_frame + feeder.frames_sent
          /\ TranscribedCb(UtteranceEvent(i, feeder.start_frame))
    /\ emitted' = emitted + 1
    /\ UNCHANGED << fed, job_vars, side_vars, flag_vars, injected, pc, session_base_s, stop_event, feeder,
                    transport, session_count >>

\* terminated-normally after end-of-input and after the last utterance
FaithfulStop ==
    /\ feeder.start_frame + emitted = total_frames
    /\ CleanStop

(* ---------------------------- specifications --------------------------- *)

\* the job against an arbitrary transport
Next ==
    \/ StartSession \/ LoopExit \/ PollTest \/ PollCheck \/ StopSession \/ EndSession
    \/ FeederCheck \/ FeederFeed \/ FeederError
    \/ Tick
    \/ Transcribed(FinalEvents) \/ Transcribing \/ Canceled(CancelDetails) \/ SessionStopped

Spec == Init /\ [][Next]_vars

\* the job with the default restart budget against a transport that recognizes
\* no speech
InitControl == \E frames \in 0..MaxFrames : InitJob(frames, MAX_RESTARTS)

NextControl ==
    \/ StartSession \/ LoopExit \/ PollTest \/ PollCheck \/ StopSession \/ EndSession
    \/ FeederCheck \/ FeederFeed \/ FeederError
    \/ Tick
    \/ Transcribed(OtherEvents) \/ Transcribing \/ Canceled(CancelDetails) \/ SessionStopped

SpecControl == InitControl /\ [][NextControl]_vars

\* the job with the default restart budget against a silent transport: no event
\* is ever delivered.  The supervisor and the feeder are threads that keep
\* running, and the clock advances.
InitHang == \E frames \in 0..MaxFrames : InitJob(frames, MAX_RESTARTS)

NextHang ==
    \/ StartSession \/ LoopExit \/ PollTest \/ PollCheck \/ StopSession \/ EndSession
    \/ FeederCheck \/ FeederFeed \/ FeederError
    \/ Tick

FairHang ==
    /\ WF_vars(StartSession \/ LoopExit \/ PollTest \/ PollCheck \/ StopSession \/ EndSession)
    /\ WF_vars(FeederCheck \/ FeederFeed)
    /\ WF_vars(Tick)

SpecHang == InitHang /\ [][NextHang]_vars /\ FairHang

\* what the supervisor, the feeder and a recognizer that answers guarantee by
\* running
FairClean ==
    /\ WF_vars(StartSession \/ LoopExit \/ PollTest \/ PollCheck \/ StopSession \/ EndSession)
    /\ WF_vars(FeederCheck \/ FeederFeed)
    /\ WF_vars(CleanStop)

\* a job with no failures
NextClean ==
    \/ StartSession \/ LoopExit \/ PollTest \/ PollCheck \/ StopSession \/ EndSession
    \/ FeederCheck \/ FeederFeed
    \/ TickNoHang
    \/ Transcribed(FinalEvents) \/ Transcribing \/ CleanStop

SpecClean == InitControl /\ [][NextClean]_vars /\ FairClean

\* a job with one injected "buffer exceeded" cancellation and no other failure
NextOneCancel ==
    \/ StartSession \/ LoopExit \/ PollTest \/ PollCheck \/ StopSession \/ EndSession
    \/ FeederCheck \/ FeederFeed
    \/ TickNoHang
    \/ Transcribed(FinalEvents) \/ Transcribing \/ CleanStop
    \/ InjectCancel(BufferExceededDetails)

SpecOneCancel == InitControl /\ [][NextOneCancel]_vars /\ FairClean

\* the idempotence scenario: the recognizer emits the utterances of the audio
\* it was fed; at most one cancellation is injected
NextFaithful ==
    \/ StartSession \/ LoopExit \/ PollTest \/ PollCheck \/ StopSession \/ EndSession
    \/ FeederCheck \/ FeederFeed
    \/ TickNoHang
    \/ EmitUtterance \/ Transcribing \/ FaithfulStop
    \/ InjectCancel({ << "Client", "Buffer", "Exceeded" >> })

SpecFaithful == InitControl /\ [][NextFaithful]_vars

\* the job with a restart budget of MaxBudget against a transport that
\* recognizes no speech, for the default overlap window and for
\* LOCAL_STT_OVERLAP_S = 0
OverlapKnobs == { 0, OVERLAP_MS }

InitKnobs ==
    \E frames \in 0..MaxFrames, overlap \in OverlapKnobs :
        InitRequest(frames, MaxBudget, overlap, GoodWav, GoodEndpoint, "loop")

SpecKnobs == InitKnobs /\ [][NextControl]_vars

\* the job with a restart budget of MaxBudget against a transport that
\* recognizes no speech and an SDK whose constructors and start call can raise
InitBudget == \E frames \in 0..MaxFrames : InitJob(frames, MaxBudget)

NextStartFail ==
    \/ NextControl
    \/ ConstructRaises \/ StartTranscribingRaises

SpecStartFail == InitBudget /\ [][NextStartFail]_vars

\* the same job with a feeder thread that can take longer than the 5 s of the
\* join to notice its stop event, and a recognition session whose stop can fail
NextAbandon ==
    \/ NextControl
    \/ EndSessionAbandon \/ PrevFeederCheck \/ PrevFeederFeed
    \/ StopSessionRaises \/ PrevSessionGone

SpecAbandon == InitBudget /\ [][NextAbandon]_vars

\* the same job with a recognition session whose stop can fail and that then
\* goes on delivering events
LateEvents ==
    { [kind |-> "speech", text |-> << " ", "hello", " " >>, offset |-> 0,
       duration |-> 2 * SEC, speaker |-> "Guest-1"] }

NextLate ==
    \/ NextControl
    \/ StopSessionRaises
    \/ PrevTranscribed(LateEvents) \/ PrevTranscribing \/ PrevCanceled(CancelDetails)
    \/ PrevSessionStopped \/ PrevSessionGone

SpecLate == InitBudget /\ [][NextLate]_vars

\* the supervisor thread runs: every one of its waits returns (the join after
\* at most 5 s, whatever the feeder does), and the clock advances
FairSupervisor ==
    /\ WF_vars(StartSession \/ LoopExit \/ PollTest \/ PollCheck \/ StopSession
               \/ EndSession \/ EndSessionAbandon)
    /\ WF_vars(Tick)

\* the job against an arbitrary transport that recognizes no speech, with the
\* supervisor running
NextBabble ==
    \/ NextControl
    \/ ConstructRaises \/ StartTranscribingRaises
    \/ EndSessionAbandon \/ PrevFeederCheck \/ PrevFeederFeed

SpecBabble == InitBudget /\ [][NextBabble]_vars /\ FairSupervisor

\* the job against a transport that recognizes no speech and cancels with
\* error details of every class
NextCancel ==
    \/ StartSession \/ LoopExit \/ PollTest \/ PollCheck \/ StopSession \/ EndSession
    \/ FeederCheck \/ FeederFeed \/ FeederError
    \/ Tick
    \/ Transcribing \/ SessionStopped
    \/ CanceledWith(ClassifiedDetails)

SpecCancel == InitBudget /\ [][NextCancel]_vars

\* the feeder thread runs: its reads, writes and sleeps return
FairFeeder == WF_vars(FeederCheck \/ FeederFeed)

\* the job against an arbitrary transport that recognizes no speech, with the
\* feeder thread running
SpecStop == InitBudget /\ [][NextControl]_vars /\ FairFeeder

\* the job against a transport that recognizes no speech, for the default
\* overlap window and for none, with a feeder the join can give up on and
\* with the frames written recorded
NextFed ==
    \/ StartSession \/ LoopExit \/ PollTest \/ PollCheck \/ StopSession
    \/ EndSession \/ EndSessionAbandon
    \/ FeederCheck \/ FeederWrite \/ FeederError
    \/ Tick
    \/ Transcribing \/ Canceled(CancelDetails) \/ SessionStopped

SpecFed == InitKnobs /\ [][NextFed]_vars

\* any request: whatever the WAV header says and whatever endpoint_map holds
\* for the language, against a transport that recognizes no speech
WavInfos == [rate : {-1, 0, Rate}, channels : {0, 1}, bits_per_sample : {0, 16}]
Endpoints == { "None", "", GoodEndpoint }

InitAnyRequest ==
    \E frames \in 0..MaxFrames, info \in WavInfos, endpoint \in Endpoints :
        InitRequest(frames, MaxBudget, OVERLAP_MS, info, endpoint, "start")

NextRequest ==
    \/ Validate \/ WavInfoRaises
    \/ NextControl

SpecRequest == InitAnyRequest /\ [][NextRequest]_vars

(* ------------------------------- claims -------------------------------- *)

\* C1 (as stated): restart_count never exceeds max_restarts in any reachable
\* state, and a job whose count would go above max_restarts ends in
\* TooManyRestarts without a transcript.
C1_Original ==
    /\ restarts <= max_restarts
    /\ (pc = "fatal" => raised.kind = "TooManyRestarts")
    /\ (pc = "done" => raised = NoError)

\* C1 (amended): restart_count is at most max_restarts in every state in which
\* the job has not failed; the restart decision that takes it to
\* max_restarts + 1 ends the job with TooManyRestarts, the count stays at
\* max_restarts + 1 in that fatal state, and a job that returns a transcript
\* has raised nothing and has a count within the budget.
C1_RestartBudget ==
    /\ restarts <= max_restarts + 1
    /\ (restarts > max_restarts <=> pc = "fatal")
    /\ (pc = "fatal" <=> raised.kind = "TooManyRestarts")
    /\ (pc = "done" => raised = NoError /\ restarts <= max_restarts)

C1_Witness ==
    /\ pc = "fatal"
    /\ restarts = max_restarts + 1
    /\ raised.kind = "TooManyRestarts"
    /\ transcription_results # << >>

\* C2 (as stated): when every sub-session ends by the hang watchdog the job
\* fails at the end of the N-th sub-session, N = max_restarts, and no
\* (N+1)-th sub-session is started.
C2_Original ==
    /\ session_count <= max_restarts
    /\ (pc = "fatal" => session_count = max_restarts)

\* C2 (amended): when every sub-session ends by the hang watchdog, a job
\* that has audio to transcribe never returns, it fails with TooManyRestarts,
\* and it does so at the end of exactly the (N+1)-th sub-session: not after
\* fewer, and no (N+2)-th sub-session is started.
C2_FailsAfterBudgetPlusOne ==
    /\ [](session_count <= max_restarts + 1)
    /\ [](pc = "done" => total_frames = 0)
    /\ [](pc = "fatal" => /\ session_count = max_restarts + 1
                          /\ raised = [kind |-> "TooManyRestarts",
                                       reason |-> Tag("hang_timeout")])
    /\ (total_frames > 0 => <>(pc = "fatal"))

C2_Witness ==
    /\ pc = "fatal"
    /\ session_count = MAX_RESTARTS + 1
    /\ restarts = MAX_RESTARTS + 1

\* C7: the backoff starts at 1 s, the sleep before the k-th restart is
\* min(20, 2^(k-1)) s, the sleeps never decrease and never exceed 20 s, and
\* the backoff is never reset: it is min(20, 2^n) after n sleeps.
C7_Backoff ==
    /\ Len(slept) = (IF pc = "fatal" THEN restarts - 1 ELSE restarts)
    /\ \A k \in 1..Len(slept) : slept[k] = Min(20, 2^(k-1))
    /\ \A k \in 1..(Len(slept) - 1) : slept[k] <= slept[k+1]
    /\ backoff_s = Min(20, 2^Len(slept))

C7_Witness ==
    /\ slept = << 1, 2, 4, 8, 16, 20, 20 >>
    /\ pc = "poll"
    /\ restart_reason = NoReason

\* C8: on a silent transport every running sub-session is ended by the
\* watchdog with restart_reason = hang_timeout, and the restart is counted
\* (the k-th sub-session leaves restart_count = k, the job going on to the
\* next sub-session or failing with TooManyRestarts).
C8_WatchdogForcesRestart ==
    \A k \in 1..(MAX_RESTARTS + 1) :
        (session_count = k /\ pc = "poll" /\ ~done)
            ~> (/\ session_count = k
                /\ restarts = k
                /\ restart_needed
                /\ restart_reason = Tag("hang_timeout")
                /\ pc \in {"loop", "fatal"})

C8_Witness ==
    /\ pc = "stop"
    /\ idle > HANG_TIMEOUT_S
    /\ restart_needed
    /\ restart_reason = Tag("hang_timeout")
    /\ done

SegStartTicks(seg) == seg.offset
SegEndTicks(seg) == seg.offset + seg.duration

\* C3: in append order the accepted segments have non-decreasing global_start
\* and each starts no earlier than the previous segment's global_end minus
\* epsilon.
C3_OrderedNoOverlap ==
    \A i \in 1..(Len(transcription_results) - 1) :
        LET a == transcription_results[i]
            b == transcription_results[i + 1]
        IN  /\ SegStartTicks(b) >= SegStartTicks(a)
            /\ SegStartTicks(b) >= SegEndTicks(a) - DEDUP_EPS_TICKS

RECURSIVE MaxEndTicks(_)
MaxEndTicks(segs) ==
    IF segs = << >> THEN -scale_100ns
    ELSE LET rest == MaxEndTicks(Tail(segs))
             here == SegEndTicks(Head(segs))
         IN  IF here >= rest THEN here ELSE rest

\* C4: the watermark never decreases, whatever the step (restart and cursor
\* rollback included), and it is the largest global_end of the accepted
\* segments (-1 s while there is none).
C4_Watermark ==
    /\ [](accepted_last_end_s \div Rate = MaxEndTicks(transcription_results))
    /\ [][accepted_last_end_s' >= accepted_last_end_s]_vars

\* a sub-session restarted behind the watermark, after segments were accepted
C4_Witness ==
    /\ restarts >= 1
    /\ pc = "poll"
    /\ Len(transcription_results) = 2
    /\ accepted_last_end_s > session_base_s
    /\ accepted_last_end_s = 2 * scale_100ns * Rate

\* C5: in every state in which a Final event can be delivered, and for every
\* Final event with non-empty text: with global_start = local start + the base
\* offset of the running sub-session (its start frame / rate) and global_end
\* = global_start + duration, transcribed_cb drops the event iff global_end <=
\* watermark + epsilon; else it appends exactly one segment with that start
\* and duration and the watermark becomes max(watermark, global_end).
C5_DedupRule ==
    transport = "open" =>
        \A evt \in SpeechEvents :
            LET global_start == evt.offset * Rate + feeder.start_frame * scale_100ns
                global_end == global_start + evt.duration * Rate
                got == FinalEffect(transcription_results, accepted_last_end_s,
                                   session_base_s, evt)
            IN  IF global_end <= accepted_last_end_s + DEDUP_EPS_TICKS * Rate
                THEN got = << transcription_results, accepted_last_end_s >>
                ELSE /\ got[1] = Append(transcription_results,
                                        [speaker_id |-> evt.speaker,
                                         text |-> << "hello" >>,
                                         offset |-> global_start \div Rate,
                                         duration |-> (global_end - global_start) \div Rate])
                     /\ got[2] = (IF accepted_last_end_s >= global_end
                                  THEN accepted_last_end_s ELSE global_end)

\* a segment accepted in a restarted sub-session that starts at 1 s, from where
\* one Final event (offset 1 s, duration 0.08 s) ends exactly at watermark +
\* epsilon and another (offset 1 s, duration 2 s) ends beyond it
C5_Witness ==
    /\ transport = "open"
    /\ restarts >= 1
    /\ feeder.start_frame * scale_100ns = scale_100ns * Rate
    /\ Len(transcription_results) = 1
    /\ transcription_results[1].offset = scale_100ns
    /\ transcription_results[1].duration = 2 * scale_100ns
    /\ accepted_last_end_s = 3 * scale_100ns * Rate
    /\ session_base_s + scale_100ns * Rate + DEDUP_EPS_TICKS * Rate
          <= accepted_last_end_s + DEDUP_EPS_TICKS * Rate
    /\ idle = 0

AllUtterances == [i \in 1..total_frames |-> UtteranceText(i)]
TranscriptTexts == [i \in 1..Len(transcription_results) |-> transcription_results[i].text]

\* the uninterrupted run returns every utterance once, in order
C6_CleanRun == (pc = "done" /\ injected = << >>) => TranscriptTexts = AllUtterances

\* C6: the run with one injected failure and one restart returns the same
\* sequence of segment texts as the uninterrupted run.
C6_Idempotent == (pc = "done" /\ restarts = 1) => TranscriptTexts = AllUtterances

\* C9 (as stated): one cancellation whose reason contains "buffer exceeded" in
\* any letter case gives exactly one restart, with reason
\* client_buffer_exceeded, and the job completes with restart_count = 1.
C9_Original ==
    /\ restarts <= 1
    /\ pc # "fatal"
    /\ (injected # << >> /\ pc = "done" => restarts = 1)
    /\ (restarts = 1 /\ pc = "loop" /\ session_count = 1
            => restart_reason = Tag("client_buffer_exceeded"))

ClientBufferExceededDetails ==
    { << "Client", "Buffer", "Exceeded" >>, << "client", "buffer", "exceeded" >> }

\* C9 (amended): one cancellation whose reason contains "client buffer
\* exceeded" in any letter case gives exactly one restart, with reason
\* client_buffer_exceeded, and the job completes with restart_count = 1.
C9_ClientBufferExceeded ==
    /\ [](restarts <= 1 /\ pc # "fatal")
    /\ [](injected \in ClientBufferExceededDetails =>
            /\ (pc = "done" => restarts = 1 /\ raised = NoError)
            /\ (pc \in {"loop", "done"} =>
                    (restarts = 1 /\ slept = << BACKOFF_INIT_S >>))
            /\ (pc = "loop" =>
                    restart_needed /\ restart_reason = Tag("client_buffer_exceeded")))
    /\ <>(pc = "done")

C9_Witness ==
    /\ pc = "done"
    /\ injected = << "Client", "Buffer", "Exceeded" >>
    /\ restarts = 1
    /\ session_count = 2

\* C10: a job with no failures finishes, after exactly one sub-session, with
\* zero restarts, and returns its transcript.
C10_CleanJob ==
    /\ [](restarts = 0 /\ slept = << >> /\ pc # "fatal" /\ raised = NoError)
    /\ [](session_count <= 1)
    /\ [](pc = "done" /\ total_frames > 0 =>
            session_count = 1 /\ feeder.finished /\ ~restart_needed)
    /\ <>(pc = "done")

C10_Witness ==
    /\ pc = "done"
    /\ session_count = 1
    /\ feeder.finished
    /\ restarts = 0
    /\ Len(transcription_results) = 2

\* C11: the job returns a transcript only in a state where cursor_frame >=
\* total_frames and the sub-session that just ended required no restart; it
\* never returns while a restart is pending or while cursor_frame <
\* total_frames.
C11_ReturnsOnlyWhenComplete ==
    pc = "done" => (cursor_frame >= total_frames /\ ~restart_needed)

\* C12: every failure local to a sub-session is absorbed and turned into a
\* restart decision: a job that passed validation raises nothing but
\* TooManyRestarts, and it leaves the function only by returning or by that
\* error.
C12_OnlyTooManyRestarts ==
    /\ raised.kind \in {"none", "TooManyRestarts"}
    /\ pc # "error"

\* C13 (as stated): at most one sub-session is active at any time: while a
\* sub-session is set up or running, the feeder thread of the sub-session
\* before it has terminated and its recognition session has been stopped, so
\* two feeder threads never run at the same time.
C13_Original ==
    /\ prev_session.feeder.pc \notin {"check", "feed"}
    /\ prev_session.transport = "closed"

\* C13 (amended): a sub-session is opened and its feeder started only after
\* the stop event of the sub-session before it has been set, the stop of its
\* recognition session has been requested and the join on its feeder has
\* returned; a feeder that had terminated when the join returned, and a
\* recognition session whose stop succeeded, are never alive next to the new
\* sub-session, and a feeder that outlived the join runs on with its own
\* counters, which the supervisor has already read.
C13_StartsAfterTeardown ==
    [][pc = "loop" /\ pc' = "poll" =>
          /\ session_count = 0 \/ stop_event
          /\ feeder.pc \in {"none", "exited"} =>
                prev_session'.feeder.pc \notin {"check", "feed"}
          /\ transport = "closed" => prev_session'.transport = "closed"
          /\ prev_session'.feeder.pc \in {"check", "feed"} =>
                /\ prev_session'.feeder = feeder
                /\ cursor_frame <= feeder.start_frame + feeder.frames_sent]_vars

\* two feeder threads are alive: the one of the second sub-session and the
\* one that the join on the first gave up on
C13_Witness ==
    /\ session_count = 2
    /\ pc = "poll"
    /\ feeder.pc \in {"check", "feed"}
    /\ prev_session.feeder.pc \in {"check", "feed"}
    /\ ~stop_event

\* a step of the supervisor's loop thread
SupervisorStep ==
    StartSession \/ LoopExit \/ PollTest \/ PollCheck \/ StopSession \/ EndSession

\* C14 (as stated): the watermark, cursor_frame, restart_count and the backoff
\* duration are written only by the supervisor's loop thread, never by a
\* recognition callback or by the feeder thread.
C14_Original ==
    [][(\/ accepted_last_end_s' # accepted_last_end_s
        \/ cursor_frame' # cursor_frame
        \/ restarts' # restarts
        \/ backoff_s' # backoff_s) => SupervisorStep]_vars

\* C14 (amended): cursor_frame, restart_count and the backoff duration are
\* written only by the supervisor's loop thread (in the step that ends a
\* sub-session); the watermark is written only by the callback for Final
\* events, on the transport's thread, and never by the supervisor's loop
\* thread; the feeder thread writes none of the four.
C14_Writers ==
    [][/\ (\/ cursor_frame' # cursor_frame
           \/ restarts' # restarts
           \/ backoff_s' # backoff_s) => EndSession
       /\ accepted_last_end_s' # accepted_last_end_s =>
             (Transcribed(FinalEvents) /\ ~SupervisorStep)]_vars

\* a second sub-session, after the supervisor wrote the cursor, the restart
\* count and the backoff and the callback wrote the watermark
C14_Witness ==
    /\ pc = "poll"
    /\ restarts = 1
    /\ cursor_frame = 1
    /\ backoff_s = 2 * BACKOFF_INIT_S
    /\ accepted_last_end_s = 2 * scale_100ns * Rate
    /\ feeder.frames_sent = 1

\* a step that is the delivery of an event of the sub-session before the
\* current one, and not the delivery of an event of the current one
LateDelivery ==
    /\ \/ PrevTranscribed(LateEvents) \/ PrevTranscribing \/ PrevCanceled(CancelDetails)
       \/ PrevSessionStopped
    /\ ~(\/ Transcribed(OtherEvents) \/ Transcribing \/ Canceled(CancelDetails)
         \/ SessionStopped)

\* C15: an event of sub-session k delivered after sub-session k+1 has started
\* does not set done, restart_needed or restart_reason and does not refresh
\* last_activity of sub-session k+1, and a Final event of sub-session k is
\* translated to global time with the base offset of sub-session k.
C15_CallbacksIsolated ==
    [][LateDelivery =>
          /\ UNCHANGED << done, restart_needed, restart_reason, idle >>
          /\ Len(transcription_results') > Len(transcription_results) =>
                \E evt \in LateEvents :
                    transcription_results'[Len(transcription_results')].offset
                        = (evt.offset * Rate + prev_session.base_s) \div Rate]_vars

\* the job has left the function, by returning or by raising
Terminated == pc \in {"done", "fatal", "error"}

ActivityStep == Transcribed(OtherEvents) \/ Transcribing

C17_Rejected ==
    LET bad_wav == wav.rate <= 0 \/ wav.channels <= 0 \/ wav.bits_per_sample <= 0
        no_endpoint == host_endpoint = "None" \/ host_endpoint = ""
    IN  (bad_wav \/ no_endpoint) =>
            /\ pc \in {"start", "error"}
            /\ session_count = 0 /\ feeder = NoFeeder /\ transport = "closed"
            /\ restarts = 0 /\ slept = << >> /\ backoff_s = BACKOFF_INIT_S
            /\ pc = "error" =>
                  IF no_endpoint
                  THEN raised = [kind |-> "ValueError",
                                 reason |-> Tag("Unsupported language or missing endpoint")]
                  ELSE \/ raised = [kind |-> "ValueError",
                                    reason |-> Tag("Invalid WAV metadata")]
                       \/ /\ raised = [kind |-> "wave.Error", reason |-> NoReason]
                          /\ wav.channels = 0 \/ wav.bits_per_sample = 0

\* C17: when the sample rate, the channel count or the bit depth is <= 0, or
\* the language has no configured endpoint, the job fails before any
\* sub-session is opened or any feeder started, with restart_count = 0 and no
\* retry, and with the error of that condition: the unsupported-language
\* error for a missing endpoint, else the error for the invalid metadata.
C17_FailsBeforeAnySession ==
    /\ []C17_Rejected
    /\ [][(pc = "start" /\ (wav.rate <= 0 \/ wav.channels <= 0
                            \/ wav.bits_per_sample <= 0
                            \/ host_endpoint = "None" \/ host_endpoint = ""))
              => pc' = "error"]_vars

\* a WAV with a sample rate of 0 and a configured language has been rejected
C17_Witness ==
    /\ pc = "error"
    /\ wav.rate = 0 /\ wav.channels = 1 /\ wav.bits_per_sample = 16
    /\ host_endpoint = GoodEndpoint
    /\ total_frames = MaxFrames
    /\ raised.reason = Tag("Invalid WAV metadata")

\* C18: the reason that TooManyRestarts reports is the restart reason
\* determined for the last sub-session that ran: every sub-session starts
\* with no restart pending and no reason, a restart never becomes pending
\* without its reason being written, the error carries the reason in force
\* at the decision that exhausted the budget, and the reasons decided from
\* the feeder agree with the feeder of that last sub-session.
C18_LastReason ==
    /\ [][pc = "loop" /\ pc' = "poll" =>
              ~restart_needed' /\ restart_reason' = NoReason]_vars
    /\ [][~restart_needed /\ restart_needed' => restart_reason' # NoReason]_vars
    /\ [](pc = "fatal" =>
              /\ raised.kind = "TooManyRestarts"
              /\ restart_needed
              /\ raised.reason = restart_reason
              /\ raised.reason # NoReason
              /\ raised.reason = Tag("feeder_error:OSError") => feeder.error # "None"
              /\ raised.reason = Tag("session_stopped_early") =>
                    (~feeder.finished /\ feeder.error = "None"
                     /\ cursor_frame < total_frames))

\* the budget was exhausted by a sub-session that ended with a feeder error
C18_Witness ==
    /\ pc = "fatal"
    /\ raised.reason = Tag("feeder_error:OSError")
    /\ session_count = max_restarts + 1
    /\ slept = << 1, 2 >>

\* C19: a job whose cursor reaches the end of the stream with no restart
\* pending returns successfully whatever was transcribed, an empty transcript
\* included: the step that ends the last sub-session (or finds nothing to
\* feed) goes to the return, raises nothing and leaves the transcript alone;
\* a returned job carries no error, an empty transcript gives the no-results
\* warning, and the ends-early warning is given exactly for a non-empty
\* transcript whose watermark is positive and below 98% of the duration.
C19_EmptyIsSuccess ==
    /\ [][(pc = "join" /\ ~restart_needed' /\ cursor_frame' >= total_frames)
              \/ (pc = "loop" /\ cursor_frame >= total_frames)
           => /\ pc' = "done"
              /\ raised' = NoError
              /\ transcription_results' = transcription_results]_vars
    /\ [](pc = "done" =>
              /\ raised = NoError
              /\ (transcription_results = << >>) <=> (warning = "no_results")
              /\ (warning = "may_end_early") <=>
                    /\ transcription_results # << >>
                    /\ accepted_last_end_s > 0
                    /\ accepted_last_end_s
                         <= (49 * (total_frames * scale_100ns) - 1) \div 50)

\* a job that fed its whole stream, after a restart, and transcribed nothing
C19_Witness ==
    /\ pc = "done"
    /\ transcription_results = << >>
    /\ warning = "no_results"
    /\ raised = NoError
    /\ session_count = 2
    /\ total_frames = MaxFrames
    /\ cursor_frame = total_frames

\* the reasons that force a restart: the watchdog's and the two classified
\* cancellations'
ForcedReasons ==
    { Tag("hang_timeout"), Tag("client_buffer_exceeded"), Tag("connection_or_timeout") }

\* the restart decision at the end of a sub-session is restart_needed' and
\* restart_reason' of the step that leaves the join; before it restart_needed
\* says whether the watchdog or a classified cancellation forced a restart
C20_RestartIff ==
    [][pc = "join" /\ pc' # "join" =>
          LET advanced == IF cursor_frame + feeder.frames_sent < total_frames
                          THEN cursor_frame + feeder.frames_sent
                          ELSE total_frames
          IN  restart_needed' <=> \/ feeder.error # "None"
                                  \/ advanced < total_frames /\ ~feeder.finished
                                  \/ restart_needed]_vars

\* C20: at the end of every sub-session a restart is required exactly when
\* the feeder recorded an error, or the advanced cursor is short of the
\* stream and the feeder did not finish, or the watchdog or a classified
\* cancellation forced one; the reason reported is then the forcing one if
\* there is one, else the feeder error, else session_stopped_early.
C20_RestartDecision ==
    /\ C20_RestartIff
    /\ [][pc = "join" /\ pc' # "join" /\ restart_needed' =>
              IF restart_needed
              THEN restart_reason' \in ForcedReasons
              ELSE IF feeder.error # "None"
                   THEN restart_reason' = Tag("feeder_error:OSError")
                   ELSE restart_reason' = Tag("session_stopped_early")]_vars

\* the words of a pattern in any letter case
AnyCase(word) ==
    CASE word = "client" -> { "client", "Client" }
      [] word = "buffer" -> { "buffer", "Buffer" }
      [] word = "exceeded" -> { "exceeded", "Exceeded" }
      [] word = "websocket" -> { "websocket", "WebSocket" }
      [] word = "connection" -> { "connection", "Connection" }
      [] word = "timeout" -> { "timeout", "Timeout" }
      [] OTHER -> { word }

\* the reason string contains the pattern, whatever the letter case
Mentions(details, pat) ==
    \E i \in 1..(Len(details) - Len(pat) + 1) :
        \A j \in 1..Len(pat) : details[i + j - 1] \in AnyCase(pat[j])

MentionsTransport(details) ==
    \/ Mentions(details, << "websocket" >>)
    \/ Mentions(details, << "connection" >>)
    \/ Mentions(details, << "timeout" >>)

\* what a canceled event with these error details must do, `first` being the
\* pattern of the first class
CancelOutcome(details, first) ==
    /\ done'
    /\ IF Mentions(details, first)
       THEN restart_needed' /\ restart_reason' = Tag("client_buffer_exceeded")
       ELSE IF MentionsTransport(details)
            THEN restart_needed' /\ restart_reason' = Tag("connection_or_timeout")
            ELSE /\ restart_needed' = restart_needed
                 /\ restart_reason' = [tag |-> "raw", raw |-> details]

C22_CursorAdvance ==
    /\ [][pc = "join" /\ pc' # "join" =>
              LET advanced == feeder.start_frame + feeder.frames_sent
              IN  /\ cursor_frame = feeder.start_frame
                  /\ IF pc' = "loop" /\ restart_needed'
                     THEN cursor_frame' = (IF advanced > overlap_frames
                                           THEN advanced - overlap_frames ELSE 0)
                     ELSE cursor_frame' = advanced]_vars
    /\ [][session_count' = session_count =>
              /\ feeder'.frames_sent >= feeder.frames_sent
              /\ feeder'.start_frame = feeder.start_frame
              /\ prev_session.feeder.pc # "none" =>
                    prev_session'.feeder.frames_sent >= prev_session.feeder.frames_sent]_vars
    /\ [](/\ 0 <= feeder.frames_sent
          /\ feeder.frames_sent <= total_frames - feeder.start_frame
          /\ prev_session.feeder.frames_sent
                <= total_frames - prev_session.feeder.start_frame
          /\ 0 <= cursor_frame
          /\ cursor_frame <= total_frames)

\* a sub-session that started at frame 1 fed one frame and failed with a
\* feeder error; the next one starts one overlap window before frame 2
C22_Witness ==
    /\ pc = "loop"
    /\ total_frames = MaxFrames
    /\ feeder.start_frame = 1
    /\ feeder.frames_sent = 1
    /\ feeder.error # "None"
    /\ restart_needed
    /\ cursor_frame = 2 - overlap_frames

\* C23: a restart within the budget leaves the cursor at max(0, c -
\* overlap_frames), c being the cursor advanced by the frames fed and
\* overlap_frames the whole frames in the overlap window; nothing moves the
\* cursor before the next sub-session is set up, and that sub-session has
\* the cursor over the sample rate as its base offset (session_base_s counts
\* 1/(Rate * scale_100ns) s) and a feeder that starts at the cursor, with
\* nothing fed.
C23_RestartPosition ==
    /\ [][pc = "join" /\ pc' = "loop" /\ restart_needed' =>
              LET sum == cursor_frame + feeder.frames_sent
                  c == IF sum < total_frames THEN sum ELSE total_frames
                  window == (overlap_ms * Rate) \div 1000
              IN  cursor_frame' = (IF c - window > 0 THEN c - window ELSE 0)]_vars
    /\ [][pc = "loop" => cursor_frame' = cursor_frame]_vars
    /\ [][pc = "loop" /\ pc' = "poll" =>
              /\ session_base_s' = cursor_frame * scale_100ns
              /\ feeder'.start_frame = cursor_frame
              /\ feeder'.frames_sent = 0
              /\ feeder'.pc = "check"]_vars

\* the second sub-session of a job whose first one fed two frames of three
\* and was restarted: it starts one overlap window (one frame) before frame 2
C23_Witness ==
    /\ pc = "poll"
    /\ session_count = 2
    /\ restarts = 1
    /\ total_frames = MaxFrames
    /\ overlap_ms = OVERLAP_MS
    /\ cursor_frame = 1
    /\ feeder.start_frame = 1
    /\ session_base_s = scale_100ns
    /\ feeder.frames_sent = 0

\* C24: every sub-session that starts after a restart has its base offset at
\* or before the watermark (both count 1/(Rate * scale_100ns) s).
C24_BaseNotAfterWatermark ==
    [][pc = "loop" /\ pc' = "poll" /\ restarts > 0 =>
          session_base_s' <= accepted_last_end_s']_vars

\* what C25 asks of one feeder thread in a state: finished only with every
\* frame up to total_frames fed, no error recorded and the thread over
FinishedIsClean(f) ==
    f.finished =>
        /\ f.start_frame + f.frames_sent = total_frames
        /\ f.error = "None"
        /\ f.pc = "exited"

\* what C25 asks of one step of one feeder thread, `stop` being its stop
\* signal: finished is set only by a read at the end of the stream, and never
\* cleared; a thread that leaves its loop at the test of the stop signal,
\* which is then set, or with an error, leaves it with finished false
FinishedStep(f, g, stop) ==
    /\ f.finished => g.finished
    /\ ~f.finished /\ g.finished =>
          /\ f.pc = "feed"
          /\ f.start_frame + f.frames_sent = total_frames
          /\ g.frames_sent = f.frames_sent
    /\ f.pc = "check" /\ g.pc = "exited" => ~g.finished /\ (stop \/ g.error # "None")
    /\ f.error = "None" /\ g.error # "None" => g.pc = "exited" /\ ~g.finished

\* C25: finished becomes true only when the feeder read past the last frame;
\* a feeder stopped by the stop signal or by an error ends with finished
\* false, however its steps interleave with the supervisor's; this for the
\* feeder of the current sub-session and for one the join gave up on.
C25_FinishedOnlyAtEnd ==
    /\ [](FinishedIsClean(feeder) /\ FinishedIsClean(prev_session.feeder))
    /\ [][session_count' = session_count =>
              /\ FinishedStep(feeder, feeder', stop_event)
              /\ prev_session.feeder.pc # "none" =>
                    FinishedStep(prev_session.feeder, prev_session'.feeder, TRUE)]_vars

\* the stop signal reached a feeder that had written every frame but had not
\* yet read past the end
C25_Witness ==
    /\ pc = "join"
    /\ stop_event
    /\ feeder.pc = "exited"
    /\ ~feeder.finished
    /\ feeder.error = "None"
    /\ feeder.start_frame + feeder.frames_sent = total_frames
    /\ total_frames = MaxFrames

\* what C26 asks of one step of one feeder thread: a failure is recorded in
\* error, ends the thread and feeds nothing; a thread that is over has closed
\* its push stream and does nothing more
FailureStep(f, g) ==
    /\ f.error = "None" /\ g.error # "None" =>
          /\ g.pc = "exited"
          /\ g.frames_sent = f.frames_sent
    /\ g.pc = "exited" => g.push_stream = "closed"
    /\ f.pc = "exited" => g = f

\* C26: a failure inside the feeder (opening or seeking before the first
\* chunk, reading or writing later) is recorded, ends the feeder and raises
\* nothing in the supervisor, whose variables the step leaves alone; however
\* a feeder exits, its push stream is closed; and the supervisor takes the
\* recorded error as the restart reason only at the end of the sub-session,
\* after the join.
C26_FeederErrorContained ==
    /\ [][session_count' = session_count =>
              /\ FailureStep(feeder, feeder')
              /\ prev_session.feeder.pc # "none" =>
                    FailureStep(prev_session.feeder, prev_session'.feeder)
              /\ feeder'.error # feeder.error =>
                    UNCHANGED << pc, done, restart_needed, restart_reason, raised,
                                 cursor_frame, restarts, stop_event, transport >>]_vars
    /\ [](/\ raised.kind \in {"none", "TooManyRestarts"}
          /\ pc # "error"
          /\ feeder.pc = "exited" => feeder.push_stream = "closed"
          /\ prev_session.feeder.pc = "exited" =>
                prev_session.feeder.push_stream = "closed")
    /\ [][restart_reason' = Tag("feeder_error:OSError") /\ restart_reason' # restart_reason =>
              /\ pc = "join" /\ pc' \in {"loop", "fatal"}
              /\ stop_event /\ done
              /\ feeder.error # "None"]_vars

\* opening or seeking failed in the second sub-session: nothing was fed, the
\* stream is closed, and the supervisor is still polling
C26_Witness ==
    /\ pc = "poll"
    /\ session_count = 2
    /\ feeder.pc = "exited"
    /\ feeder.error # "None"
    /\ feeder.frames_sent = 0
    /\ feeder.push_stream = "closed"
    /\ ~done /\ ~restart_needed
    /\ raised = NoError

\* C27: once the stop signal is set, a feeder that is at its test of the
\* signal writes nothing more, and one that is past the test writes at most
\* the one chunk it is at and comes back to the test or ends, so that at most
\* one more chunk is written; the feeder thread then ends; and setting the
\* signal when the feeder is already over changes nothing of the feeder.
C27_StopsWithinOneChunk ==
    /\ [][stop_event /\ stop_event' /\ feeder' # feeder =>
              /\ feeder.pc = "check" =>
                    /\ feeder'.pc = "exited"
                    /\ feeder'.frames_sent = feeder.frames_sent
              /\ feeder.pc = "feed" =>
                    /\ feeder'.pc \in {"check", "exited"}
                    /\ feeder'.frames_sent <= feeder.frames_sent + chunk_frames
              /\ feeder.pc \in {"check", "feed"}]_vars
    /\ [][feeder.pc = "exited" /\ ~stop_event /\ stop_event' => feeder' = feeder]_vars
    /\ stop_event ~> (feeder.pc = "exited")

\* the stop signal ended a feeder that had fed one frame of three
C27_Witness ==
    /\ pc = "join"
    /\ stop_event
    /\ feeder.pc = "exited"
    /\ ~feeder.finished
    /\ feeder.error = "None"
    /\ feeder.start_frame = 0
    /\ feeder.frames_sent = 1
    /\ total_frames = MaxFrames

\* an event of the recognition session is delivered to its callback
EventDelivered ==
    \/ Transcribed(FinalEvents) \/ Transcribing
    \/ Canceled(CancelDetails) \/ SessionStopped

\* C28: every event delivered while a sub-session runs (incremental, final
\* with or without speech or text, terminated, canceled) refreshes
\* last_activity, i.e. leaves the sub-session with no idle time.
C28_EveryEventRefreshes == [][EventDelivered => idle' = 0]_vars

\* `text` is `raw` without the blanks at its two ends, and is not empty
Trimmed(text, raw) ==
    /\ text # << >>
    /\ text[1] # " " /\ text[Len(text)] # " "
    /\ \E a \in 1..Len(raw) :
          /\ text = SubSeq(raw, a, a + Len(text) - 1)
          /\ \A i \in 1..Len(raw) : (i < a \/ i > a + Len(text) - 1) => raw[i] = " "

\* the step is the acceptance of the final event `evt`: recognized speech
\* with a text that is not blank, ending after the watermark by more than the
\* tolerance, appended as one segment, the watermark raised to its end
Accepts(evt) ==
    LET seg_start == evt.offset * Rate + session_base_s
        seg_end == (evt.offset + evt.duration) * Rate + session_base_s
        last == transcription_results'[Len(transcription_results')]
    IN  /\ transport = "open"
        /\ evt.kind = "speech"
        /\ seg_end > accepted_last_end_s + DEDUP_EPS_TICKS * Rate
        /\ Len(transcription_results') = Len(transcription_results) + 1
        /\ SubSeq(transcription_results', 1, Len(transcription_results))
              = transcription_results
        /\ Trimmed(last.text, evt.text)
        /\ last.speaker_id = evt.speaker
        /\ last.offset = seg_start \div Rate
        /\ last.duration = (seg_end - seg_start) \div Rate
        /\ accepted_last_end_s' = seg_end

\* C29: the transcript and the watermark change only in a step that accepts
\* a final event, by one appended segment; every other step (an incremental
\* event, a final event without speech, with blank text or rejected as a
\* duplicate, a terminated or a canceled event, the supervisor's and the
\* feeder's steps) leaves both unchanged; every segment of the transcript
\* has a text that is not empty.
C29_OnlyAcceptedSegments ==
    /\ [][transcription_results' # transcription_results
              \/ accepted_last_end_s' # accepted_last_end_s
           => \E evt \in FinalEvents : Accepts(evt)]_vars
    /\ [](\A i \in 1..Len(transcription_results) :
              /\ transcription_results[i].text # << >>
              /\ transcription_results[i].text # << " " >>)

\* a sub-session that accepted one segment was then canceled with a reason
\* that is not classified: the transcript and the watermark are as they were
C29_Witness ==
    /\ pc = "poll"
    /\ done
    /\ restart_reason = [tag |-> "raw", raw |-> << "Buffer", "exceeded" >>]
    /\ Len(transcription_results) = 1
    /\ transcription_results[1].text = << "hello" >>
    /\ accepted_last_end_s
          = (transcription_results[1].offset + transcription_results[1].duration) * Rate

C31_RestartIsTaken ==
    /\ [][pc = "join" /\ pc' = "loop" /\ restart_needed' =>
              cursor_frame' < total_frames]_vars
    /\ [][pc = "loop" /\ restart_needed /\ pc' # pc =>
              pc' = "poll" /\ session_count' = session_count + 1]_vars

\* C32: whenever the supervisor is about to start a sub-session or has
\* returned (indeed in every state), every frame before cursor_frame has been
\* written to the push stream of some sub-session; a sub-session's writes are
\* the frames from its start cursor on, in order and without a gap, as many
\* as its feeder counts; and a job that returned has had every frame of the
\* stream written.
C32_NoGap ==
    /\ [](\A i \in 0..(cursor_frame - 1) : i \in fed)
    /\ [](\A i \in feeder.start_frame..(feeder.start_frame + feeder.frames_sent - 1) :
              i \in fed)
    /\ [][fed' # fed =>
              /\ feeder'.start_frame = feeder.start_frame
              /\ feeder'.frames_sent > feeder.frames_sent
              /\ fed' = fed \cup ((feeder.start_frame + feeder.frames_sent)
                                    .. (feeder.start_frame + feeder'.frames_sent - 1))]_vars
    /\ [][pc = "loop" /\ pc' = "poll" => feeder'.start_frame = cursor_frame]_vars
    /\ [](pc = "done" => fed = 0..(total_frames - 1))

\* a job that returned after two restarts, each one rolled back by the overlap
\* window, with every frame written
C32_Witness ==
    /\ pc = "done"
    /\ restarts = 2
    /\ overlap_ms = OVERLAP_MS
    /\ total_frames = MaxFrames
    /\ fed = 0..(MaxFrames - 1)
    /\ feeder.start_frame = 1
    /\ feeder.finished

\* C33: once a callback has set done, the supervisor's watchdog test leaves
\* restart_needed and restart_reason of that sub-session as the callback
\* left them, wherever in the supervisor's poll, sleep and test the callback
\* ran.
C33_NoHangAfterDone ==
    [][pc = "sleep" /\ pc' # pc /\ done =>
          UNCHANGED << restart_needed, restart_reason >>]_vars

=============================================================================
